---- MODULE Spec2Model ----
(***************************************************************************)
(* Orchestration state store of AI-Software-Development:                   *)
(* update_orchestration_state (src/src/tools/custom_tools.py) reads        *)
(* .orchestration/state.json, merges the call's arguments into it, writes  *)
(* it back and returns it.  Each caller is a process that goes through the *)
(* read, the open-for-write (which truncates the file) and the dump of the *)
(* function, so that interleavings of two callers can be examined.         *)
(***************************************************************************)
EXTENDS Integers, Sequences, FiniteSets, TLC

(* ------------------------------ bounds --------------------------------- *)

\* longest issues list passed to, or stored by, an update
MaxIssues == 1

\* longest blocked_on list passed to, or stored by, an update
MaxBlockedOn == 1

\* the callers of the tool (two agents sharing one project directory)
Procs == {"frontend", "backend"}

\* phase strings passed by the callers: phases of the workflow, and SETUP,
\* which is not one of them
PhaseInputs == {"ARCH", "UIUX", "FRONTEND", "DONE", "SETUP"}

\* the phases of the workflow
Phases == {"REQ", "ARCH", "UIUX", "FRONTEND", "BACKEND", "TEST", "OPS", "DONE"}

\* the artifact keys of a project state
FixedArtifacts == {"requirements", "architecture", "adr", "openapi", "ux",
                   "run_instructions", "testing", "deployment"}

\* position of a phase in the workflow REQ, ARCH, UIUX, FRONTEND/BACKEND,
\* TEST, OPS, DONE; 0 for a string that is not a phase
PhaseRank(ph) ==
    CASE ph = "REQ" -> 1
      [] ph = "ARCH" -> 2
      [] ph = "UIUX" -> 3
      [] ph \in {"FRONTEND", "BACKEND"} -> 4
      [] ph = "TEST" -> 5
      [] ph = "OPS" -> 6
      [] ph = "DONE" -> 7
      [] OTHER -> 0

\* the artifact a phase delivers; "" for a phase without one
Deliverable(ph) ==
    CASE ph = "REQ" -> "requirements"
      [] ph = "ARCH" -> "architecture"
      [] ph = "FRONTEND" -> "ux"
      [] ph = "BACKEND" -> "run_instructions"
      [] ph = "TEST" -> "testing"
      [] ph = "OPS" -> "deployment"
      [] OTHER -> ""

\* artifact keys passed by the callers
ArtifactInputs == {"requirements", "architecture"}

\* free-text entries of issues and of blocked_on; a blocker names the
\* deliverable it waits for
IssueItems == {"x", "y"}
BlockerItems == {"architecture"}

BoundedSeq(S, n) == UNION {[1..m -> S] : m \in 0..n}

(* ---------------------- Python values and dicts ------------------------ *)

\* {} : the dict without keys
EmptyDict == <<>>

\* an Optional[...] = None parameter: not given, or given with a value
NotGiven == [given |-> FALSE, val |-> <<>>]
Given(v) == [given |-> TRUE, val |-> v]

\* truth value of an optional dict or list argument: None, {} and [] are falsy
Truthy(opt) == opt.given /\ DOMAIN opt.val # {}

\* d.get(k, default)
Get(d, k, default) == IF k \in DOMAIN d THEN d[k] ELSE default

\* d.update(u): keys of u are added or overwritten, the others are kept
DictUpdate(d, u) ==
    [k \in DOMAIN d \cup DOMAIN u |-> IF k \in DOMAIN u THEN u[k] ELSE d[k]]

\* arg or fallback
OrElse(opt, fallback) == IF Truthy(opt) THEN opt.val ELSE fallback

(* ----------------------- content of state.json ------------------------- *)

Absent == [kind |-> "absent", obj |-> EmptyDict]
\* open(state_file, "w") leaves an existing, empty file until the dump
EmptyFile == [kind |-> "empty", obj |-> EmptyDict]
\* text that json.load rejects
Unparseable == [kind |-> "unparseable", obj |-> EmptyDict]
\* JSON text whose top-level value is not an object (a list, a number)
NonObject == [kind |-> "nonobject", obj |-> EmptyDict]
\* JSON text of an object
ObjectFile(d) == [kind |-> "object", obj |-> d]

\* JSON text of an object whose artifacts value is not a mapping (null, a
\* number, a string, a list of names); obj holds the other keys
MisshapenFile(d) == [kind |-> "misshapen", obj |-> d]

\* a dump whose text never reaches the file: the file stays as open() left it
JsonDumpUnflushed(d) == EmptyFile

\* json.dump(state, f, indent=2) followed by the close of the file
JsonDump(d) == ObjectFile(d)

\* what a test or an operator writes to the state file by hand
RawContents == {Unparseable, NonObject, ObjectFile(EmptyDict)}

(* -------------------- update_orchestration_state ----------------------- *)

\* a load whose except clause leaves no dict behind (state = None)
ReadStateFileNoFallback(content) ==
    IF content.kind = "absent" THEN [isdict |-> TRUE, val |-> EmptyDict]
    ELSE IF content.kind = "object" THEN [isdict |-> TRUE, val |-> content.obj]
    ELSE [isdict |-> FALSE, val |-> EmptyDict]

\* the load of the existing state: absent file -> {}, json.load fails -> {},
\* otherwise the value json.load returns (a dict for an object)
ReadStateFile(content) ==
    IF content.kind = "absent" THEN [isdict |-> TRUE, val |-> EmptyDict]
    ELSE IF content.kind \in {"empty", "unparseable"}
         THEN [isdict |-> TRUE, val |-> EmptyDict]
    ELSE IF content.kind \in {"object", "misshapen"}
         THEN [isdict |-> TRUE, val |-> content.obj]
    ELSE [isdict |-> FALSE, val |-> EmptyDict]

\* dict(state.get("artifacts", {})) raises TypeError or ValueError when the
\* stored artifacts value is not a mapping
ExistingArtifactsRaises(content) == content.kind = "misshapen"

\* a merge that takes the delta as the whole map
MergeArtifactsReplacing(st, artifacts) ==
    IF Truthy(artifacts) THEN artifacts.val ELSE Get(st, "artifacts", EmptyDict)

\* a merge that keeps the keys but resets the flags the delta does not name
MergeArtifactsResetting(st, artifacts) ==
    IF Truthy(artifacts)
    THEN [k \in DOMAIN Get(st, "artifacts", EmptyDict) \cup DOMAIN artifacts.val |->
              IF k \in DOMAIN artifacts.val THEN artifacts.val[k] ELSE FALSE]
    ELSE Get(st, "artifacts", EmptyDict)

\* existing_artifacts = dict(state.get("artifacts", {}));
\* if artifacts: existing_artifacts.update(artifacts)
MergeArtifacts(st, artifacts) ==
    IF Truthy(artifacts)
    THEN DictUpdate(Get(st, "artifacts", EmptyDict), artifacts.val)
    ELSE Get(st, "artifacts", EmptyDict)

\* issues or []: the stored list is not consulted
NewIssuesOrEmpty(st, issues) == OrElse(issues, <<>>)

\* the passed issues are appended to the stored ones
NewIssuesAppending(st, issues) ==
    IF Truthy(issues) THEN Get(st, "issues", <<>>) \o issues.val
    ELSE Get(st, "issues", <<>>)

\* issues or state.get("issues", [])
NewIssues(st, issues) == OrElse(issues, Get(st, "issues", <<>>))

\* blocked_on falls back on the wrong key of the stored state
NewBlockedOnFromIssues(st, blocked_on) ==
    OrElse(blocked_on, Get(st, "issues", <<>>))

\* the passed blockers are appended to the stored ones
NewBlockedOnAppending(st, blocked_on) ==
    IF Truthy(blocked_on) THEN Get(st, "blocked_on", <<>>) \o blocked_on.val
    ELSE Get(st, "blocked_on", <<>>)

\* blocked_on or state.get("blocked_on", [])
NewBlockedOn(st, blocked_on) == OrElse(blocked_on, Get(st, "blocked_on", <<>>))

\* the stored phase wins over the passed one
NewPhaseKeepExisting(st, phase) == Get(st, "phase", phase)

\* the value passed as phase
NewPhase(st, phase) == phase

\* state = {...}: the four keys and nothing else
UpdatedStateReplacing(st, a) ==
    [phase |-> NewPhase(st, a.phase),
     artifacts |-> MergeArtifacts(st, a.artifacts),
     issues |-> NewIssues(st, a.issues),
     blocked_on |-> NewBlockedOn(st, a.blocked_on)]

\* state.update({"phase": ..., "artifacts": ..., "issues": ..., "blocked_on": ...})
UpdatedState(st, a) ==
    DictUpdate(st, [phase |-> NewPhase(st, a.phase),
                    artifacts |-> MergeArtifacts(st, a.artifacts),
                    issues |-> NewIssues(st, a.issues),
                    blocked_on |-> NewBlockedOn(st, a.blocked_on)])

\* the argument tuples of a call
OptArtifacts ==
    {NotGiven} \cup
    {Given(d) : d \in UNION {[K -> BOOLEAN] : K \in SUBSET ArtifactInputs}}
OptIssues == {NotGiven} \cup {Given(s) : s \in BoundedSeq(IssueItems, MaxIssues)}
OptBlockedOn ==
    {NotGiven} \cup {Given(s) : s \in BoundedSeq(BlockerItems, MaxBlockedOn)}
Args == [phase : PhaseInputs, artifacts : OptArtifacts,
         issues : OptIssues, blocked_on : OptBlockedOn]
NoArgs == [phase |-> "", artifacts |-> NotGiven,
           issues |-> NotGiven, blocked_on |-> NotGiven]

\* the calls of an agent that reports on the architecture phase
FrameArgs == {a \in Args : a.phase = "ARCH" /\ a.blocked_on = NotGiven}

\* state files that hold more, or other things, than the tool writes: the
\* project's size and validation flag next to the four keys or alone, an
\* artifacts value that is not a mapping, a top-level list
StoredContents ==
    {ObjectFile([project_size |-> "small", validation_passed |-> TRUE,
                 phase |-> "REQ", artifacts |-> [requirements |-> TRUE],
                 issues |-> <<"x">>, blocked_on |-> <<"architecture">>]),
     ObjectFile([project_size |-> "large", validation_passed |-> FALSE]),
     MisshapenFile([phase |-> "REQ", project_size |-> "small"]),
     NonObject}

\* the calls two agents make at the same time: each records its own artifact
ConcurrentArgs(p) ==
    {[phase |-> ph,
      artifacts |-> Given([k \in {IF p = "frontend" THEN "requirements"
                                               ELSE "architecture"} |-> TRUE]),
      issues |-> NotGiven, blocked_on |-> NotGiven] : ph \in PhaseInputs}

(* -------------------- validate_project_structure ----------------------- *)

\* required_files: the paths a project of each size must have, in order
RequiredFiles ==
    [small |-> <<"README.md", "TODO.md", "docs/architecture.md",
                 "openapi.yaml", "Dockerfile">>,
     medium |-> <<"README.md", "TODO.md", "design/", "services/",
                  "docker-compose.yaml", "Dockerfile">>,
     large |-> <<"README.md", "TODO.md", "docs/features/", "services/",
                 "docker-compose.yaml", "ci/", "k8s/">>]

Range(q) == {q[i] : i \in DOMAIN q}

\* the paths a test creates in the project directory
AllPaths == UNION {Range(RequiredFiles[sz]) : sz \in DOMAIN RequiredFiles}

\* the project_size strings passed by the callers
SizeInputs == {"small", "medium", "large", "unknown"}

\* a call that indexes the table without the membership test: KeyError
ValidateUnchecked(project_size, exists) ==
    IF project_size \notin DOMAIN RequiredFiles
    THEN [raised |-> TRUE, ret |-> EmptyDict, probed |-> {}]
    ELSE LET expected == RequiredFiles[project_size]
             missing == SelectSeq(expected, LAMBDA q : q \notin exists)
         IN [raised |-> FALSE,
             ret |-> [valid |-> Len(missing) = 0, expected |-> expected,
                      missing |-> missing, project_size |-> project_size],
             probed |-> Range(expected)]

\* a call whose filter lost its negation: the existing paths are listed
ValidateListingExisting(project_size, exists) ==
    IF project_size \notin DOMAIN RequiredFiles
    THEN [raised |-> FALSE,
          ret |-> [valid |-> FALSE,
                   error |-> <<"Unknown project size: ", project_size>>],
          probed |-> {}]
    ELSE LET expected == RequiredFiles[project_size]
             missing == SelectSeq(expected, LAMBDA q : q \in exists)
         IN [raised |-> FALSE,
             ret |-> [valid |-> Len(missing) = 0, expected |-> expected,
                      missing |-> missing, project_size |-> project_size],
             probed |-> Range(expected)]

\* validate_project_structure(project_size) in a directory where the paths
\* of exists exist: the returned dict, and the paths os.path.exists was
\* asked about; the error text is the prefix followed by the value
ValidateProjectStructure(project_size, exists) ==
    IF project_size \notin DOMAIN RequiredFiles
    THEN [raised |-> FALSE,
          ret |-> [valid |-> FALSE,
                   error |-> <<"Unknown project size: ", project_size>>],
          probed |-> {}]
    ELSE LET expected == RequiredFiles[project_size]
             missing == SelectSeq(expected, LAMBDA q : q \notin exists)
         IN [raised |-> FALSE,
             ret |-> [valid |-> Len(missing) = 0, expected |-> expected,
                      missing |-> missing, project_size |-> project_size],
             probed |-> Range(expected)]

(* --------------------------- internet_search --------------------------- *)

\* max_results: int = 5
DefaultMaxResults == 5

\* value of a parameter that has a default
OrDefault(opt, default) == IF opt.given THEN opt.val ELSE default

\* the arguments of a search: query, and the three optional parameters
SearchArgs ==
    [query : {"web development", "test query"},
     max_results : {NotGiven, Given(1), Given(10)},
     topic : {NotGiven, Given("general"), Given("news"), Given("finance")},
     include_raw_content : {NotGiven, Given(TRUE), Given(FALSE)}]

\* "up", or the message of the exception the provider's search raises
ProviderStates == {"up", "Connection error", "rate limit exceeded"}

\* what the provider answers to a request: a result set made for it
ProviderResponse(req) ==
    [query |-> req.query,
     results |-> <<[title |-> req.query, topic |-> req.topic,
                    raw_content |-> req.include_raw_content,
                    rank |-> req.max_results]>>]

\* get_tavily_client(): the key is looked up, the class is imported when
\* the module global is still None and is kept there, the client is made
GetTavilyClient(key, canImport, cls) ==
    IF ~key
    THEN [raised |-> TRUE,
          msg |-> <<"TAVILY_API_KEY", " environment variable is required">>,
          cls |-> cls]
    ELSE IF cls = "None" /\ ~canImport
    THEN [raised |-> TRUE,
          msg |-> <<"Failed to import tavily client: ", "No module named 'tavily'">>,
          cls |-> cls]
    ELSE [raised |-> FALSE, msg |-> <<>>, cls |-> "class"]

\* the request client.search receives
Forwarded(a) ==
    [query |-> a.query,
     max_results |-> OrDefault(a.max_results, DefaultMaxResults),
     include_raw_content |-> OrDefault(a.include_raw_content, FALSE),
     topic |-> OrDefault(a.topic, "general")]

\* the dict of the except clause: f"Search failed: {str(e)}"
SearchFailed(msg) == [error |-> <<"Search failed: ">> \o msg, results |-> <<>>]

\* a search without the try: the exceptions reach the caller
InternetSearchUncaught(a, key, canImport, cls, prov) ==
    LET c == GetTavilyClient(key, canImport, cls) IN
    IF c.raised
    THEN [raised |-> TRUE, ret |-> EmptyDict, forwarded |-> {}, cls |-> c.cls]
    ELSE IF prov # "up"
    THEN [raised |-> TRUE, ret |-> EmptyDict, forwarded |-> {Forwarded(a)},
          cls |-> c.cls]
    ELSE [raised |-> FALSE, ret |-> ProviderResponse(Forwarded(a)),
          forwarded |-> {Forwarded(a)}, cls |-> c.cls]

\* a search that passes the default instead of the caller's max_results
InternetSearchDefaultMax(a, key, canImport, cls, prov) ==
    LET c == GetTavilyClient(key, canImport, cls)
        req == [Forwarded(a) EXCEPT !.max_results = DefaultMaxResults] IN
    IF c.raised
    THEN [raised |-> FALSE, ret |-> SearchFailed(c.msg), forwarded |-> {},
          cls |-> c.cls]
    ELSE IF prov # "up"
    THEN [raised |-> FALSE, ret |-> SearchFailed(<<prov>>),
          forwarded |-> {req}, cls |-> c.cls]
    ELSE [raised |-> FALSE, ret |-> ProviderResponse(req),
          forwarded |-> {req}, cls |-> c.cls]

\* internet_search(query, max_results, topic, include_raw_content): whether
\* it raises, what it returns, the requests the provider received and the
\* module global after the call
InternetSearch(a, key, canImport, cls, prov) ==
    LET c == GetTavilyClient(key, canImport, cls) IN
    IF c.raised
    THEN [raised |-> FALSE, ret |-> SearchFailed(c.msg), forwarded |-> {},
          cls |-> c.cls]
    ELSE IF prov # "up"
    THEN [raised |-> FALSE, ret |-> SearchFailed(<<prov>>),
          forwarded |-> {Forwarded(a)}, cls |-> c.cls]
    ELSE [raised |-> FALSE, ret |-> ProviderResponse(Forwarded(a)),
          forwarded |-> {Forwarded(a)}, cls |-> c.cls]

NoSearch == [called |-> FALSE]

NoValidation ==
    [called |-> FALSE, size |-> "", raised |-> FALSE, ret |-> EmptyDict,
     probed |-> {}]

\* the state file a test writes before it calls the tools
SampleState ==
    ObjectFile([phase |-> "REQ", artifacts |-> [requirements |-> TRUE],
                issues |-> <<"Old issue">>, blocked_on |-> <<"Old blocker">>])

(* ---------------- the role configurations and the agent ---------------- *)

\* the six roles, in the order create_software_dev_agent lists them
Roles == <<"requirements", "architecture", "frontend", "backend", "tester",
           "devops">>

\* the name of each role's configuration file, as the text pieces around its
\* separators
ConfigName ==
    [requirements |-> <<"requirements", "_", "analyst">>,
     architecture |-> <<"architecture", "_", "agent">>,
     frontend |-> <<"frontend", "_", "developer">>,
     backend |-> <<"backend", "_", "developer">>,
     tester |-> <<"tester", "_", "agent">>,
     devops |-> <<"devops", "_", "agent">>]

\* config_name.replace("_", "-")
Kebab(s) == [i \in DOMAIN s |-> IF s[i] = "_" THEN "-" ELSE s[i]]

\* custom_tools: the tools handed to create_deep_agent
ToolRegistry ==
    <<"internet_search", "validate_project_structure",
      "update_orchestration_state">>

\* the tools entry of each role's configuration file
ResourceTools ==
    [requirements |-> <<"internet_search">>,
     architecture |-> <<"internet_search", "validate_project_structure",
                        "update_orchestration_state">>,
     frontend |-> <<>>, backend |-> <<>>, tester |-> <<>>, devops |-> <<>>]

\* load_prompt_config: the parsed configuration file of a role
LoadPromptConfig(role) ==
    [name |-> ConfigName[role], description |-> "description",
     prompt |-> "prompt", tools |-> ResourceTools[role]]

\* _load_agent_config: the sub-agent dict built from the configuration file
LoadAgentConfig(role) ==
    LET cfg == LoadPromptConfig(role) IN
    [name |-> Kebab(ConfigName[role]), description |-> cfg.description,
     prompt |-> cfg.prompt, tools |-> Get(cfg, "tools", <<>>)]

\* an override that keeps only the name next to the model
SubagentWithModelOnly(base, model) ==
    IF model # "" THEN [name |-> base.name, model |-> model] ELSE base

\* _subagent_with_model: {**base, "model": model} for a truthy model
SubagentWithModel(base, model) ==
    IF model # "" THEN DictUpdate(base, [model |-> model]) ELSE base

\* literal configurations in which every role is given every tool
SubAgentLiteralAllTools(role) ==
    [name |-> Kebab(ConfigName[role]), description |-> "description",
     prompt |-> "prompt", tools |-> ToolRegistry]

\* get_<role>_subagent of the top-level main.py: the literal sub-agent dicts
SubAgentLiteral(role) ==
    [name |-> Kebab(ConfigName[role]), description |-> "description",
     prompt |-> "prompt",
     tools |-> CASE role = "requirements" -> <<"internet_search">>
                 [] role = "architecture" ->
                      <<"internet_search", "validate_project_structure",
                        "update_orchestration_state">>
                 [] OTHER -> <<>>]

\* the arguments of create_software_dev_agent; "" stands for None and for
\* what an unset environment variable gives
RecursionLimits == {-1, 0, 1, 1000, 2000}
ModelInputs == {"", "custom-model"}
AgentModelInputs ==
    {EmptyDict, [frontend |-> "fast-model"],
     [requirements |-> "fast-model", architecture |-> "big-model"]}
CreateArgs ==
    [model : ModelInputs, project_size : SizeInputs,
     recursion_limit : RecursionLimits, agent_models : AgentModelInputs,
     env_model : {"", "env-model"}]

\* what create_deep_agent does: "up", or the message it raises with
RuntimeStates == {"up", "Creation failed", "Model initialization failed"}

NotCreated == [called |-> FALSE]

\* the outcome of a call that raised
CreateRaised(type, msg, invoked) ==
    [raised |-> TRUE, error |-> [type |-> type, message |-> msg],
     invoked |-> invoked, kwargs |-> EmptyDict, config |-> EmptyDict]

\* the keyword arguments create_deep_agent receives from src/main.py
DeepAgentKwargs(a) ==
    LET selected == IF a.model # "" THEN a.model ELSE a.env_model
        base == [tools |-> ToolRegistry, instructions |-> "supervisor",
                 subagents |->
                     [i \in DOMAIN Roles |->
                         SubagentWithModel(LoadAgentConfig(Roles[i]),
                             Get(a.agent_models, Roles[i], selected))],
                 state_schema |-> "SoftwareDevState"]
    IN IF a.model # "" THEN DictUpdate(base, [model |-> a.model]) ELSE base

\* the dict with_config receives from src/main.py
AgentConfig(a) ==
    [recursion_limit |-> a.recursion_limit,
     configurable |->
        [project_size |-> a.project_size,
         project_id |-> <<"default_", a.project_size>>,
         enable_callbacks |-> TRUE, enable_memory |-> TRUE]]

\* the outcome of a call that returned the configured agent
CreateReturned(kwargs, config) ==
    [raised |-> FALSE, error |-> [type |-> "", message |-> ""],
     invoked |-> TRUE, kwargs |-> kwargs, config |-> config]

\* a creation whose check lets a limit of zero through
CreateSoftwareDevAgentZeroAllowed(a, rt) ==
    IF a.recursion_limit < 0
    THEN CreateRaised("ValueError", "Recursion limit must be positive", FALSE)
    ELSE IF rt # "up" THEN CreateRaised("Exception", rt, TRUE)
    ELSE CreateReturned(DeepAgentKwargs(a), AgentConfig(a))

\* a creation that answers a failure of create_deep_agent with no agent
CreateSoftwareDevAgentSwallowing(a, rt) ==
    IF a.recursion_limit <= 0
    THEN CreateRaised("ValueError", "Recursion limit must be positive", FALSE)
    ELSE IF rt # "up"
         THEN [raised |-> FALSE, error |-> [type |-> "", message |-> ""],
               invoked |-> TRUE, kwargs |-> EmptyDict, config |-> EmptyDict]
    ELSE CreateReturned(DeepAgentKwargs(a), AgentConfig(a))

\* create_software_dev_agent of src/main.py, called with the defaults of
\* project_id, enable_callbacks and enable_memory: the check of the limit,
\* then create_deep_agent (whose exception is logged and raised again), then
\* with_config
CreateSoftwareDevAgent(a, rt) ==
    IF a.recursion_limit <= 0
    THEN CreateRaised("ValueError", "Recursion limit must be positive", FALSE)
    ELSE IF rt # "up" THEN CreateRaised("Exception", rt, TRUE)
    ELSE CreateReturned(DeepAgentKwargs(a), AgentConfig(a))

\* create_software_dev_agent of the top-level main.py: model is passed on as
\* it is, the sub-agents are the literal dicts
CreateSoftwareDevAgentTop(a, rt) ==
    IF a.recursion_limit <= 0
    THEN CreateRaised("ValueError", "Recursion limit must be positive", FALSE)
    ELSE IF rt # "up" THEN CreateRaised("Exception", rt, TRUE)
    ELSE CreateReturned(
             [tools |-> ToolRegistry, instructions |-> "supervisor",
              model |-> a.model,
              subagents |-> [i \in DOMAIN Roles |-> SubAgentLiteral(Roles[i])],
              state_schema |-> "SoftwareDevState"],
             [recursion_limit |-> a.recursion_limit,
              configurable |-> [project_size |-> a.project_size]])

(* --------------------------- get_initial_state ------------------------- *)

\* how many initial states the caller holds at the same time
MaxStates == 2

\* the keys of a state whose values are lists or dicts of their own
NestedKeys ==
    {"messages", "files", "artifacts", "issues", "blocked_on", "agent_assignments"}

\* a reference to the object at a place of the store of objects
Ref(n) == [ref |-> n]

\* the dict of a state whose six lists and dicts sit at places n+1 .. n+6
StateDict(project_size, n) ==
    [messages |-> Ref(n + 1), files |-> Ref(n + 2),
     project_size |-> project_size, current_phase |-> "REQ",
     artifacts |-> Ref(n + 3), issues |-> Ref(n + 4), blocked_on |-> Ref(n + 5),
     agent_assignments |-> Ref(n + 6),
     validation_passed |-> FALSE, ready_for_delivery |-> FALSE]

\* the six lists and dicts a state starts with
FreshParts ==
    << <<>>, EmptyDict, [k \in FixedArtifacts |-> FALSE], <<>>, <<>>, EmptyDict >>

\* an initial state whose lists and dicts are built once and handed to every
\* caller
GetInitialStateSharedDefaults(project_size, objs) ==
    IF Len(objs) = 0
    THEN [objs |-> FreshParts \o <<StateDict(project_size, 0)>>, ref |-> 7]
    ELSE [objs |-> objs \o <<StateDict(project_size, 0)>>, ref |-> Len(objs) + 1]

\* get_initial_state: the dict literal builds six new lists and dicts and a
\* new dict that holds them, after the objects that exist already
GetInitialState(project_size, objs) ==
    [objs |-> objs \o FreshParts \o <<StateDict(project_size, Len(objs))>>,
     ref |-> Len(objs) + 7]

\* what the caller reads through a state: each list or dict in place of its
\* reference
View(objs, id) ==
    [k \in DOMAIN objs[id] |->
        IF k \in NestedKeys THEN objs[objs[id][k].ref] ELSE objs[id][k]]

(* ----------------------- PersistentProjectMemory ----------------------- *)

\* the caps of _save_decision and _save_lesson
MaxDecisions == 20
MaxLessons == 10

\* how many save_context calls a session makes, and how many an earlier
\* session of the same project can have made
MaxSaves == 2
MaxPrior == 21

\* the last n items of a list: lst[-n:]
LastN(lst, n) ==
    IF Len(lst) <= n THEN lst ELSE SubSeq(lst, Len(lst) - n + 1, Len(lst))

\* the first n items of a list: lst[:n]
FirstN(lst, n) == IF Len(lst) <= n THEN lst ELSE SubSeq(lst, 1, n)

\* the empty memory structure of _load_memory and clear
EmptyMemory(project_id, now) ==
    [project_id |-> project_id, created_at |-> now, interactions |-> <<>>,
     decisions |-> <<>>, lessons_learned |-> <<>>, context |-> EmptyDict]

\* _load_memory: the stored structure, or the empty one when the file is
\* absent or json.load fails
LoadMemory(project_id, content, now) ==
    IF content.kind = "object" THEN content.obj ELSE EmptyMemory(project_id, now)

\* the file of a memory: <project_id>_memory.json in the memory directory
FileOf(dir, project_id) == IF project_id \in DOMAIN dir THEN dir[project_id] ELSE Absent

\* the inputs and outputs of an interaction: inputs with or without
\* agent_name ("" when it has none), outputs by the keys they hold
SaveInputs ==
    {[agent_name |-> "", outputs |-> {"result"}],
     [agent_name |-> "architecture-agent", outputs |-> {"decision"}],
     [agent_name |-> "", outputs |-> {"error"}],
     [agent_name |-> "architecture-agent", outputs |-> {"architecture", "lesson"}]}

\* inputs.get("agent_name", "unknown")
AgentOf(agent_name) == IF agent_name = "" THEN "unknown" ELSE agent_name

\* _extract_decision_summary: the text of the first of the four keys the
\* outputs hold
DecisionSummary(outputs) ==
    IF "decision" \in outputs THEN <<"decision", "...">>
    ELSE IF "architecture" \in outputs THEN <<"architecture", "...">>
    ELSE IF "design" \in outputs THEN <<"design", "...">>
    ELSE IF "summary" \in outputs THEN <<"summary", "...">>
    ELSE <<"Decision made">>

\* the entries save_context makes
InteractionEntry(agent_name, outputs, ts) ==
    [timestamp |-> ts, inputs |-> agent_name, outputs |-> outputs,
     agent |-> AgentOf(agent_name)]
DecisionEntry(agent_name, outputs, ts) ==
    [timestamp |-> ts, agent |-> AgentOf(agent_name),
     summary |-> DecisionSummary(outputs),
     rationale |-> IF "rationale" \in outputs THEN "rationale" ELSE "",
     impacts |-> <<>>]
LessonEntry(agent_name, outputs, ts) ==
    [timestamp |-> ts, agent |-> AgentOf(agent_name),
     issue |-> IF "error" \in outputs THEN "error"
               ELSE IF "issue" \in outputs THEN "issue" ELSE "",
     solution |-> IF "solution" \in outputs THEN "solution" ELSE "",
     prevention |-> IF "prevention" \in outputs THEN "prevention" ELSE ""]

\* a cap that keeps the oldest decisions
SaveDecisionKeepingOldest(mem, agent_name, outputs, ts) ==
    [mem EXCEPT !.decisions =
        FirstN(Append(@, DecisionEntry(agent_name, outputs, ts)), MaxDecisions)]

\* _save_decision: append, then keep the last 20
SaveDecision(mem, agent_name, outputs, ts) ==
    [mem EXCEPT !.decisions =
        LastN(Append(@, DecisionEntry(agent_name, outputs, ts)), MaxDecisions)]

\* _save_lesson: append, then keep the last 10
SaveLesson(mem, agent_name, outputs, ts) ==
    [mem EXCEPT !.lessons_learned =
        LastN(Append(@, LessonEntry(agent_name, outputs, ts)), MaxLessons)]

\* save_context up to the write: the interaction, then the decision and the
\* lesson the outputs call for
SaveContext(mem, agent_name, outputs, ts) ==
    LET m1 == [mem EXCEPT !.interactions =
                   Append(@, InteractionEntry(agent_name, outputs, ts))]
        m2 == IF "decision" \in outputs \/ "architecture" \in outputs
              THEN SaveDecision(m1, agent_name, outputs, ts) ELSE m1
    IN IF "lesson" \in outputs \/ "error" \in outputs
       THEN SaveLesson(m2, agent_name, outputs, ts) ELSE m2

\* what the disk does with a write: "ok", "open" (open fails with IOError),
\* "write" (the dump fails with IOError after the file was truncated)
DiskStates == {"ok", "open", "write"}

\* _save_memory: the file after the call; an IOError is answered with a
\* printed warning
SaveMemory(mem, content, disk) ==
    IF disk = "ok" THEN ObjectFile(mem)
    ELSE IF disk = "open" THEN content
    ELSE EmptyFile

\* update_context up to the write: self._memory["context"][key] = value
UpdateContext(mem, key, value) ==
    [mem EXCEPT !.context = DictUpdate(@, [k \in {key} |-> value])]

\* the outputs of the calls of an earlier session, by their number
PriorOutputs(n) == IF n % 2 = 1 THEN {"decision", "error"} ELSE {"architecture", "lesson"}

\* the memory and the journal an earlier session of n calls leaves
RECURSIVE PriorMemory(_, _)
PriorMemory(project_id, n) ==
    IF n = 0 THEN EmptyMemory(project_id, 0)
    ELSE SaveContext(PriorMemory(project_id, n - 1), "architecture-agent",
                     PriorOutputs(n), n)

\* every entry the calls 1 .. n of an earlier session made, oldest first
PriorJournal(n) ==
    [interactions |->
        [i \in 1..n |-> InteractionEntry("architecture-agent", PriorOutputs(i), i)],
     decisions |->
        [i \in 1..n |-> DecisionEntry("architecture-agent", PriorOutputs(i), i)],
     lessons |->
        [i \in 1..n |-> LessonEntry("architecture-agent", PriorOutputs(i), i)]]

\* the file content to put under a name of the memory directory
DirPut(dir, project_id, content) ==
    IF content.kind = "absent" THEN dir
    ELSE DictUpdate(dir, [k \in {project_id} |-> content])

\* the memory object of the session
StandaloneId == <<"p1">>
NotBuilt == [built |-> FALSE]
Built(mem) == [built |-> TRUE, m |-> mem]

(* -------------------------- AgentMemoryManager ------------------------- *)

\* key = f"{agent_name}_{project_id}", names as their text pieces
MemoryKey(agent_name, project_id) == agent_name \o <<"_">> \o project_id

\* project_id = f"shared_{project_id}"
SharedKey(project_id) == <<"shared", "_">> \o project_id

\* who asks for a memory: role names as the agent_models keys and as the
\* configuration names write them, project ids with one or two parts
Pair(agent_name, project_id) == [agent_name |-> agent_name, project_id |-> project_id]
PairInputs ==
    {Pair(<<"backend">>, <<"p1">>),
     Pair(<<"tester">>, <<"agent", "_", "p1">>),
     Pair(<<"tester", "_", "agent">>, <<"p1">>),
     Pair(<<"shared">>, <<"p1">>)}
SharedProjects == {<<"p1">>}

\* what is written into a context
ContextKeys == {"current_phase"}
ContextValues == {"REQ", "ARCH"}

NoCall == [op |-> "none"]

(* ------------------------------ state ---------------------------------- *)

VARIABLES
    orchDir,    \* whether the directory .orchestration exists
    file,       \* content of .orchestration/state.json
    pc,         \* where each caller is in update_orchestration_state
    args,       \* the arguments of the call in progress
    before,     \* content of the state file when the call started
    state,      \* the local variable state of the call
    ret,        \* the value the call returned
    repeat,     \* whether the call repeats the caller's previous call
    fs,         \* the paths of the project directory that exist
    validation, \* the last call of validate_project_structure
    apiKey,     \* whether TAVILY_API_KEY is set in the environment
    installed,  \* whether the tavily package can be imported
    tavilyClass,\* the module global TavilyClient: "None" or "class"
    provider,   \* "up", or the message the provider's search fails with
    search,     \* the last call of internet_search
    runtime,    \* "up", or the message create_deep_agent fails with
    agent,      \* the last call of create_software_dev_agent
    objects,    \* the dicts and lists built by get_initial_state, by place
    handles,    \* the states the caller holds: place and requested size
    memory,     \* the PersistentProjectMemory of the session: its _memory
    memoryDir,  \* the files of the memory directory, by project_id
    clock,      \* the number of timestamps taken so far
    saves,      \* the save_context calls of the session
    disk,       \* what the disk does with a write
    warned,     \* whether the last _save_memory printed its warning
    journal,    \* every entry ever saved for the session's memory
    agentMemories, \* AgentMemoryManager._agent_memories: _memory by key
    issued,     \* the key of the memory each pair was given
    mgrCall     \* the last call made through the manager

\* what update_orchestration_state neither reads nor writes
toolVars == <<fs, validation, apiKey, installed, tavilyClass, provider, search,
              runtime, agent, objects, handles, memory, memoryDir, clock,
              saves, disk, warned, journal, agentMemories, issued, mgrCall>>

\* the creation of the agent and its world
agentVars == <<runtime, agent>>

\* what the three tools neither read nor write
\* the initial states and what they are made of
initVars == <<objects, handles>>

\* the memories and their files
memVars == <<memory, memoryDir, clock, saves, disk, warned, journal,
             agentMemories, issued, mgrCall>>

restVars == <<agentVars, initVars, memVars>>

vars == <<orchDir, file, pc, args, before, state, ret, repeat,
          fs, validation, apiKey, installed, tavilyClass, provider, search,
          runtime, agent, objects, handles, memory, memoryDir, clock,
          saves, disk, warned, journal, agentMemories, issued, mgrCall>>

InitOthers ==
    /\ orchDir = FALSE
    /\ file = Absent
    /\ pc = [p \in Procs |-> "idle"]
    /\ args = [p \in Procs |-> NoArgs]
    /\ before = [p \in Procs |-> Absent]
    /\ state = [p \in Procs |-> EmptyDict]
    /\ ret = [p \in Procs |-> EmptyDict]
    /\ repeat = [p \in Procs |-> FALSE]
    /\ fs = {}
    /\ validation = NoValidation
    /\ apiKey = FALSE
    /\ installed = TRUE
    /\ tavilyClass = "None"
    /\ provider = "up"
    /\ search = NoSearch
    /\ runtime = "up"
    /\ agent = NotCreated
    /\ objects = <<>>
    /\ handles = <<>>
    /\ memory = NotBuilt
    /\ saves = 0
    /\ disk = "ok"
    /\ warned = FALSE
    /\ agentMemories = EmptyDict
    /\ issued = EmptyDict
    /\ mgrCall = NoCall

\* a new project: no memory file yet
Init ==
    /\ InitOthers
    /\ memoryDir = EmptyDict
    /\ clock = 0
    /\ journal = PriorJournal(0)

\* a project whose memory file was left by an earlier session of n calls, or
\* was damaged since
InitMemory ==
    /\ InitOthers
    /\ \/ \E n \in 0..MaxPrior :
             /\ memoryDir = DirPut(EmptyDict, StandaloneId,
                                  IF n = 0 THEN Absent
                                  ELSE ObjectFile(PriorMemory(StandaloneId, n)))
             /\ clock = n
             /\ journal = PriorJournal(n)
       \/ /\ memoryDir = DirPut(EmptyDict, StandaloneId, Unparseable)
          /\ clock = MaxPrior
          /\ journal = PriorJournal(0)

AllIdle == \A p \in Procs : pc[p] = "idle"

updateVars == <<orchDir, file, pc, args, before, state, ret, repeat>>
searchVars == <<apiKey, installed, tavilyClass, provider, search>>

\* a test or an operator creates the directory and writes the file by hand
WriteRaw(c) ==
    /\ AllIdle
    /\ orchDir' = TRUE
    /\ file' = c
    /\ UNCHANGED <<pc, args, before, state, ret, repeat>>
    /\ UNCHANGED toolVars

\* entry of the call up to the computed state: makedirs, the load of the
\* file, the merge of the arguments; a loaded value that is not a dict makes
\* state.get raise, stored artifacts that are not a mapping make dict() raise
Load(p, a) ==
    /\ pc[p] = "idle"
    /\ orchDir' = TRUE
    /\ args' = [args EXCEPT ![p] = a]
    /\ before' = [before EXCEPT ![p] = file]
    /\ LET r == ReadStateFile(file) IN
         IF r.isdict /\ ~ExistingArtifactsRaises(file)
         THEN /\ state' = [state EXCEPT ![p] = UpdatedState(r.val, a)]
              /\ pc' = [pc EXCEPT ![p] = "loaded"]
         ELSE /\ state' = state
              /\ pc' = [pc EXCEPT ![p] = "raised"]
    /\ repeat' = [repeat EXCEPT ![p] = FALSE]
    /\ UNCHANGED <<file, ret>>
    /\ UNCHANGED toolVars

\* the caller makes the call it has just made once more, with the same
\* arguments
CallAgain(p) ==
    /\ pc[p] = "returned"
    /\ ~repeat[p]
    /\ before' = [before EXCEPT ![p] = file]
    /\ ret' = [ret EXCEPT ![p] = EmptyDict]
    /\ repeat' = [repeat EXCEPT ![p] = TRUE]
    /\ LET r == ReadStateFile(file) IN
         IF r.isdict /\ ~ExistingArtifactsRaises(file)
         THEN /\ state' = [state EXCEPT ![p] = UpdatedState(r.val, args[p])]
              /\ pc' = [pc EXCEPT ![p] = "loaded"]
         ELSE /\ state' = state
              /\ pc' = [pc EXCEPT ![p] = "raised"]
    /\ UNCHANGED <<orchDir, file, args>>
    /\ UNCHANGED toolVars

\* a call made while no other call is in progress
CallAlone(p) ==
    /\ AllIdle
    /\ \E a \in Args : Load(p, a)

\* a call made whatever the other caller is doing
CallConcurrently(p) == \E a \in ConcurrentArgs(p) : Load(p, a)

\* open(state_file, "w"): the file exists and is empty
OpenForWrite(p) ==
    /\ pc[p] = "loaded"
    /\ file' = EmptyFile
    /\ pc' = [pc EXCEPT ![p] = "opened"]
    /\ UNCHANGED <<orchDir, args, before, state, ret, repeat>>
    /\ UNCHANGED toolVars

\* json.dump(state, f) and the close of the file
Dump(p) ==
    /\ pc[p] = "opened"
    /\ file' = JsonDump(state[p])
    /\ pc' = [pc EXCEPT ![p] = "written"]
    /\ UNCHANGED <<orchDir, args, before, state, ret, repeat>>
    /\ UNCHANGED toolVars

\* return state
Return(p) ==
    /\ pc[p] = "written"
    /\ ret' = [ret EXCEPT ![p] = state[p]]
    /\ pc' = [pc EXCEPT ![p] = "returned"]
    /\ UNCHANGED <<orchDir, file, args, before, state, repeat>>
    /\ UNCHANGED toolVars

\* the caller has taken the result (or the exception) and is ready again
Finish(p) ==
    /\ pc[p] \in {"returned", "raised"}
    /\ pc' = [pc EXCEPT ![p] = "idle"]
    /\ args' = [args EXCEPT ![p] = NoArgs]
    /\ before' = [before EXCEPT ![p] = Absent]
    /\ state' = [state EXCEPT ![p] = EmptyDict]
    /\ ret' = [ret EXCEPT ![p] = EmptyDict]
    /\ repeat' = [repeat EXCEPT ![p] = FALSE]
    /\ UNCHANGED <<orchDir, file>>
    /\ UNCHANGED toolVars

\* the calling process dies in the middle of a call
Crash(p) ==
    /\ pc[p] \in {"loaded", "opened", "written"}
    /\ pc' = [pc EXCEPT ![p] = "idle"]
    /\ args' = [args EXCEPT ![p] = NoArgs]
    /\ before' = [before EXCEPT ![p] = Absent]
    /\ state' = [state EXCEPT ![p] = EmptyDict]
    /\ ret' = [ret EXCEPT ![p] = EmptyDict]
    /\ repeat' = [repeat EXCEPT ![p] = FALSE]
    /\ UNCHANGED <<orchDir, file>>
    /\ UNCHANGED toolVars

(* ------------------ the project directory and its check ---------------- *)

\* a test creates one of the paths of the project
CreatePath(q) ==
    /\ AllIdle
    /\ ~validation.called
    /\ q \notin fs
    /\ fs' = fs \cup {q}
    /\ UNCHANGED <<validation, updateVars, searchVars, restVars>>

\* a validation that creates what it finds missing
ValidateCreating(size) ==
    /\ AllIdle
    /\ validation' = [called |-> TRUE, size |-> size]
                          @@ ValidateProjectStructure(size, fs)
    /\ fs' = fs \cup (Range(RequiredFiles["small"]) \ fs)
    /\ UNCHANGED <<updateVars, searchVars, restVars>>

\* a call of validate_project_structure
Validate(size) ==
    /\ AllIdle
    /\ validation' = [called |-> TRUE, size |-> size]
                          @@ ValidateProjectStructure(size, fs)
    /\ UNCHANGED <<fs, updateVars, searchVars, restVars>>

\* the caller drops the result of the validation
ForgetValidation ==
    /\ AllIdle
    /\ validation.called
    /\ validation' = NoValidation
    /\ UNCHANGED <<fs, updateVars, searchVars, restVars>>

\* the caller passes the missing paths of the validation as the issues of an
\* update
CallWithMissing(p) ==
    /\ AllIdle
    /\ validation.called
    /\ "missing" \in DOMAIN validation.ret
    /\ Load(p, [phase |-> "SETUP", artifacts |-> NotGiven,
                issues |-> Given(validation.ret.missing),
                blocked_on |-> NotGiven])

(* ------------------------- the search and its world -------------------- *)

\* TAVILY_API_KEY is set or removed in the environment
SetApiKey(b) ==
    /\ b # apiKey
    /\ apiKey' = b
    /\ UNCHANGED <<installed, tavilyClass, provider, search>>
    /\ UNCHANGED <<fs, validation, updateVars, restVars>>

\* the tavily package is installed, or removed before its first import
SetInstalled(b) ==
    /\ b # installed
    /\ ~b => tavilyClass = "None"
    /\ installed' = b
    /\ UNCHANGED <<apiKey, tavilyClass, provider, search>>
    /\ UNCHANGED <<fs, validation, updateVars, restVars>>

\* the provider starts or stops failing
SetProvider(m) ==
    /\ m # provider
    /\ provider' = m
    /\ UNCHANGED <<apiKey, installed, tavilyClass, search>>
    /\ UNCHANGED <<fs, validation, updateVars, restVars>>

\* a test writes a state file before it calls the tools
WriteSample ==
    /\ AllIdle
    /\ file # SampleState
    /\ orchDir' = TRUE
    /\ file' = SampleState
    /\ UNCHANGED <<pc, args, before, state, ret, repeat>>
    /\ UNCHANGED toolVars

\* a call of internet_search
Search(a) ==
    /\ LET r == InternetSearch(a, apiKey, installed, tavilyClass, provider) IN
         /\ search' = [called |-> TRUE, args |-> a, key |-> apiKey,
                       canImport |-> (installed \/ tavilyClass = "class"),
                       provider |-> provider, raised |-> r.raised,
                       ret |-> r.ret, forwarded |-> r.forwarded]
         /\ tavilyClass' = r.cls
    /\ UNCHANGED <<apiKey, installed, provider>>
    /\ UNCHANGED <<fs, validation, updateVars, restVars>>

(* ------------------------ the creation of the agent -------------------- *)

\* create_deep_agent starts or stops failing
SetRuntime(m) ==
    /\ m # runtime
    /\ runtime' = m
    /\ UNCHANGED <<agent, fs, validation, updateVars, searchVars, initVars, memVars>>

\* a call of create_software_dev_agent of src/main.py
CreateAgent(a) ==
    /\ agent' = [called |-> TRUE, entry |-> "src", args |-> a,
                 runtime |-> runtime] @@ CreateSoftwareDevAgent(a, runtime)
    /\ UNCHANGED <<runtime, fs, validation, updateVars, searchVars, initVars, memVars>>

\* a call of create_software_dev_agent of the top-level main.py, which has
\* neither agent_models nor a model taken from the environment
CreateAgentTop(a) ==
    /\ a.agent_models = EmptyDict
    /\ a.env_model = ""
    /\ agent' = [called |-> TRUE, entry |-> "top", args |-> a,
                 runtime |-> runtime] @@ CreateSoftwareDevAgentTop(a, runtime)
    /\ UNCHANGED <<runtime, fs, validation, updateVars, searchVars, initVars, memVars>>

(* ------------------------- the initial states -------------------------- *)

\* a call of get_initial_state whose result the caller keeps
NewState(size) ==
    /\ Len(handles) < MaxStates
    /\ LET r == GetInitialState(size, objects) IN
         /\ objects' = r.objs
         /\ handles' = Append(handles, [ref |-> r.ref, size |-> size])
    /\ UNCHANGED <<fs, validation, updateVars, searchVars, agentVars, memVars>>

\* state["current_phase"] = ph
SetPhase(i, ph) ==
    /\ i \in DOMAIN handles
    /\ objects[handles[i].ref].current_phase # ph
    /\ objects' = [objects EXCEPT ![handles[i].ref].current_phase = ph]
    /\ UNCHANGED <<handles, fs, validation, updateVars, searchVars, agentVars, memVars>>

\* state["artifacts"][k] = True
SetArtifact(i, k) ==
    /\ i \in DOMAIN handles
    /\ ~objects[objects[handles[i].ref].artifacts.ref][k]
    /\ objects' = [objects EXCEPT ![objects[handles[i].ref].artifacts.ref][k] = TRUE]
    /\ UNCHANGED <<handles, fs, validation, updateVars, searchVars, agentVars, memVars>>

\* state["issues"].append(x)
AppendIssue(i, x) ==
    /\ i \in DOMAIN handles
    /\ Len(objects[objects[handles[i].ref].issues.ref]) < MaxIssues
    /\ objects' = [objects EXCEPT ![objects[handles[i].ref].issues.ref] =
                                       Append(@, x)]
    /\ UNCHANGED <<handles, fs, validation, updateVars, searchVars, agentVars, memVars>>

\* a state file that holds more than the tool writes is put in place
WriteStored(c) ==
    /\ AllIdle
    /\ file # c
    /\ orchDir' = TRUE
    /\ file' = c
    /\ UNCHANGED <<pc, args, before, state, ret, repeat>>
    /\ UNCHANGED toolVars

\* a report on the architecture phase, made while no other call is in progress
CallFrame(p) ==
    /\ AllIdle
    /\ \E a \in FrameArgs : Load(p, a)

(* --------------------------- the memories ------------------------------ *)

notMemVars == <<fs, validation, updateVars, searchVars, agentVars, initVars>>

\* PersistentProjectMemory(project_id): the directory is made, the file loaded
Construct ==
    /\ ~memory.built
    /\ memory' = Built(LoadMemory(StandaloneId, FileOf(memoryDir, StandaloneId), clock))
    /\ UNCHANGED <<memoryDir, clock, saves, disk, warned, journal,
                   agentMemories, issued, mgrCall>>
    /\ UNCHANGED notMemVars

\* the disk starts or stops failing
SetDisk(d) ==
    /\ d # disk
    /\ disk' = d
    /\ UNCHANGED <<memory, memoryDir, clock, saves, warned, journal,
                   agentMemories, issued, mgrCall>>
    /\ UNCHANGED notMemVars

\* a call of save_context: the timestamp, the entries, the write
CallSaveContext(agent_name, outputs) ==
    /\ memory.built
    /\ saves < MaxSaves
    /\ clock' = clock + 1
    /\ saves' = saves + 1
    /\ LET m == SaveContext(memory.m, agent_name, outputs, clock + 1) IN
         /\ memory' = Built(m)
         /\ memoryDir' = DirPut(memoryDir, StandaloneId,
                SaveMemory(m, FileOf(memoryDir, StandaloneId), disk))
    /\ warned' = (disk # "ok")
    /\ journal' =
         [interactions |->
             Append(journal.interactions,
                    InteractionEntry(agent_name, outputs, clock + 1)),
          decisions |->
             IF "decision" \in outputs \/ "architecture" \in outputs
             THEN Append(journal.decisions,
                         DecisionEntry(agent_name, outputs, clock + 1))
             ELSE journal.decisions,
          lessons |->
             IF "lesson" \in outputs \/ "error" \in outputs
             THEN Append(journal.lessons,
                         LessonEntry(agent_name, outputs, clock + 1))
             ELSE journal.lessons]
    /\ UNCHANGED <<disk, agentMemories, issued, mgrCall>>
    /\ UNCHANGED notMemVars

\* get_agent_memory(agent_name, project_id): the memory under the key, built
\* from its file at the first request
GetAgentMemory(pair) ==
    /\ LET key == MemoryKey(pair.agent_name, pair.project_id) IN
         /\ agentMemories' =
               IF key \in DOMAIN agentMemories THEN agentMemories
               ELSE DictUpdate(agentMemories,
                        [k \in {key} |->
                            LoadMemory(key, FileOf(memoryDir, key), clock)])
         /\ issued' = DictUpdate(issued, [k \in {pair} |-> key])
         /\ mgrCall' = [op |-> "get", pair |-> pair, key |-> key]
    /\ UNCHANGED <<memory, memoryDir, clock, saves, disk, warned, journal>>
    /\ UNCHANGED notMemVars

\* the holder of a pair's memory calls update_context(key, value) on it
WriteThrough(pair, k, v) ==
    /\ pair \in DOMAIN issued
    /\ LET key == issued[pair]
           m == UpdateContext(agentMemories[key], k, v)
       IN /\ agentMemories' = [agentMemories EXCEPT ![key] = m]
          /\ memoryDir' = DirPut(memoryDir, key,
                                 SaveMemory(m, FileOf(memoryDir, key), disk))
          /\ mgrCall' = [op |-> "write", pair |-> pair, key |-> key]
    /\ UNCHANGED <<memory, clock, saves, disk, warned, journal, issued>>
    /\ UNCHANGED notMemVars

\* clear_agent_memory(agent_name, project_id)
ClearAgentMemory(pair) ==
    /\ LET key == MemoryKey(pair.agent_name, pair.project_id) IN
         /\ key \in DOMAIN agentMemories
         /\ agentMemories' = [agentMemories EXCEPT ![key] = EmptyMemory(key, clock)]
         /\ memoryDir' = DirPut(memoryDir, key,
                SaveMemory(EmptyMemory(key, clock), FileOf(memoryDir, key), disk))
         /\ mgrCall' = [op |-> "clear", pair |-> pair, key |-> key]
    /\ UNCHANGED <<memory, clock, saves, disk, warned, journal, issued>>
    /\ UNCHANGED notMemVars

\* update_shared_context(project_id, key, value): a memory built for the
\* call from the shared file, changed and written back
UpdateSharedContext(project_id, k, v) ==
    /\ LET key == SharedKey(project_id)
           m == UpdateContext(LoadMemory(key, FileOf(memoryDir, key), clock), k, v)
       IN /\ memoryDir' = DirPut(memoryDir, key,
                                 SaveMemory(m, FileOf(memoryDir, key), disk))
          /\ mgrCall' = [op |-> "shared", project_id |-> project_id, key |-> key]
    /\ UNCHANGED <<memory, clock, saves, disk, warned, journal,
                   agentMemories, issued>>
    /\ UNCHANGED notMemVars

\* one caller at a time (single-writer discipline)
Next ==
    \/ \E c \in RawContents : WriteRaw(c)
    \/ \E p \in Procs : CallAlone(p)
    \/ \E p \in Procs : CallAgain(p)
    \/ \E p \in Procs : OpenForWrite(p)
    \/ \E p \in Procs : Dump(p)
    \/ \E p \in Procs : Return(p)
    \/ \E p \in Procs : Finish(p)
    \/ \E p \in Procs : Crash(p)

Spec == Init /\ [][Next]_vars

\* two callers whose calls overlap freely
NextConc ==
    \/ \E c \in RawContents : WriteRaw(c)
    \/ \E p \in Procs : CallConcurrently(p)
    \/ \E p \in Procs : OpenForWrite(p)
    \/ \E p \in Procs : Dump(p)
    \/ \E p \in Procs : Return(p)
    \/ \E p \in Procs : Finish(p)

SpecConc == Init /\ [][NextConc]_vars

\* validations of a project directory that fills up, and updates that record
\* what is missing
NextValidate ==
    \/ \E q \in AllPaths : CreatePath(q)
    \/ \E size \in SizeInputs : Validate(size)
    \/ ForgetValidation
    \/ \E p \in Procs : CallWithMissing(p)
    \/ \E p \in Procs : OpenForWrite(p)
    \/ \E p \in Procs : Dump(p)
    \/ \E p \in Procs : Return(p)
    \/ \E p \in Procs : Finish(p)

SpecValidate == Init /\ [][NextValidate]_vars

\* searches in an environment that changes
NextSearch ==
    \/ \E b \in BOOLEAN : SetApiKey(b)
    \/ \E b \in BOOLEAN : SetInstalled(b)
    \/ \E m \in ProviderStates : SetProvider(m)
    \/ WriteSample
    \/ \E a \in SearchArgs : Search(a)

SpecSearch == Init /\ [][NextSearch]_vars

\* creations of the agent while the runtime and the state file change
NextAgent ==
    \/ \E m \in RuntimeStates : SetRuntime(m)
    \/ WriteSample
    \/ \E a \in CreateArgs : CreateAgent(a)
    \/ \E a \in CreateArgs : CreateAgentTop(a)

SpecAgent == Init /\ [][NextAgent]_vars

\* a caller that asks for initial states and works on them
NextInitial ==
    \/ \E size \in SizeInputs : NewState(size)
    \/ \E i \in 1..MaxStates : SetPhase(i, "ARCH")
    \/ \E i \in 1..MaxStates : SetArtifact(i, "requirements")
    \/ \E i \in 1..MaxStates : AppendIssue(i, "Missing API specification")

SpecInitial == Init /\ [][NextInitial]_vars

\* updates of state files that hold more than the tool writes
NextFrame ==
    \/ \E c \in StoredContents : WriteStored(c)
    \/ \E p \in Procs : CallFrame(p)
    \/ \E p \in Procs : OpenForWrite(p)
    \/ \E p \in Procs : Dump(p)
    \/ \E p \in Procs : Return(p)
    \/ \E p \in Procs : Finish(p)

SpecFrame == Init /\ [][NextFrame]_vars

\* a session on one project memory, on a disk that can fail
NextMemory ==
    \/ Construct
    \/ \E d \in DiskStates : SetDisk(d)
    \/ \E i \in SaveInputs : CallSaveContext(i.agent_name, i.outputs)

SpecMemory == InitMemory /\ [][NextMemory]_vars

\* agents that ask the manager for their memories and write through them
NextManager ==
    \/ \E pair \in PairInputs : GetAgentMemory(pair)
    \/ \E pair \in PairInputs, k \in ContextKeys, v \in ContextValues :
          WriteThrough(pair, k, v)
    \/ \E pair \in PairInputs : ClearAgentMemory(pair)
    \/ \E pr \in SharedProjects, k \in ContextKeys, v \in ContextValues :
          UpdateSharedContext(pr, k, v)

SpecManager == Init /\ [][NextManager]_vars

(* ------------------- what a call started from --------------------------- *)

Returned(p) == pc[p] = "returned"

\* the state a call found: the object in the file, empty for anything else
PriorState(p) == IF before[p].kind = "object" THEN before[p].obj ELSE EmptyDict
PriorArtifacts(p) ==
    IF "artifacts" \in DOMAIN PriorState(p) THEN PriorState(p).artifacts ELSE EmptyDict
PriorIssues(p) ==
    IF "issues" \in DOMAIN PriorState(p) THEN PriorState(p).issues ELSE <<>>
PriorBlockedOn(p) ==
    IF "blocked_on" \in DOMAIN PriorState(p) THEN PriorState(p).blocked_on ELSE <<>>

\* the delta a call passed: no key when artifacts was omitted
Delta(p) == IF args[p].artifacts.given THEN args[p].artifacts.val ELSE EmptyDict

FileIsObject == file.kind = "object"

\* C1: after an update returns, the artifacts map (returned and persisted)
\* has exactly the keys of the prior map A and of the delta D, with D[k] for
\* the keys of D and A[k] for the keys of A that D does not have; an update
\* without artifacts leaves the map as it was.
C1_MergeKeyByKey ==
    \A p \in Procs : Returned(p) =>
        LET A == PriorArtifacts(p)
            D == Delta(p)
            R == ret[p].artifacts
        IN /\ DOMAIN R = DOMAIN A \cup DOMAIN D
           /\ \A k \in DOMAIN D : R[k] = D[k]
           /\ \A k \in DOMAIN A \ DOMAIN D : R[k] = A[k]
           /\ FileIsObject
           /\ file.obj.artifacts = R

\* an update with {architecture: true} on a state that had {requirements: true}
C1_Witness ==
    \E p \in Procs :
        /\ Returned(p)
        /\ DOMAIN PriorArtifacts(p) = {"requirements"}
        /\ PriorArtifacts(p)["requirements"] = TRUE
        /\ DOMAIN Delta(p) = {"architecture"}
        /\ Delta(p)["architecture"] = TRUE
        /\ FileIsObject
        /\ file.obj.artifacts["requirements"] = TRUE
        /\ file.obj.artifacts["architecture"] = TRUE

\* C2: a flag that was true before an update is still true after it, unless
\* the update's artifacts argument maps that very key to false.
C2_TrueFlagStays ==
    \A p \in Procs : Returned(p) =>
        \A k \in {j \in DOMAIN PriorArtifacts(p) : PriorArtifacts(p)[j] = TRUE} :
                \/ /\ FileIsObject
                   /\ k \in DOMAIN file.obj.artifacts
                   /\ file.obj.artifacts[k] = TRUE
                \/ /\ args[p].artifacts.given
                   /\ k \in DOMAIN Delta(p)
                   /\ Delta(p)[k] = FALSE

\* an update that sets another key to false leaves the true flag true
C2_Witness ==
    \E p \in Procs :
        /\ Returned(p)
        /\ "requirements" \in DOMAIN PriorArtifacts(p)
        /\ PriorArtifacts(p)["requirements"] = TRUE
        /\ DOMAIN Delta(p) = {"architecture"}
        /\ Delta(p)["architecture"] = FALSE
        /\ file.obj.artifacts["requirements"] = TRUE

\* C3: when two callers whose updates set different artifact keys to true
\* have both returned, the persisted state has both keys set to true.
C3_NoLostUpdate ==
    (\A p \in Procs : Returned(p)) =>
        \A p \in Procs : \A k \in {j \in DOMAIN Delta(p) : Delta(p)[j] = TRUE} :
                /\ FileIsObject
                /\ k \in DOMAIN file.obj.artifacts
                /\ file.obj.artifacts[k] = TRUE

\* C4: an update that passes an empty issues (blocked_on) list leaves the
\* returned and persisted issues (blocked_on) empty.
C4_EmptyListClears ==
    \A p \in Procs : Returned(p) =>
        /\ (args[p].issues.given /\ args[p].issues.val = <<>>) =>
               (ret[p].issues = <<>> /\ FileIsObject /\ file.obj.issues = <<>>)
        /\ (args[p].blocked_on.given /\ args[p].blocked_on.val = <<>>) =>
               (ret[p].blocked_on = <<>> /\ FileIsObject
                /\ file.obj.blocked_on = <<>>)

C6_ProvidedIssuesReplace ==
    \A p \in Procs :
        (Returned(p) /\ args[p].issues.given /\ args[p].issues.val # <<>>) =>
            /\ ret[p].issues = args[p].issues.val
            /\ FileIsObject
            /\ file.obj.issues = args[p].issues.val

\* an update with another issue on a state that had one
C6_Witness ==
    \E p \in Procs :
        /\ Returned(p)
        /\ PriorIssues(p) # <<>>
        /\ args[p].issues.given
        /\ args[p].issues.val # <<>>
        /\ args[p].issues.val # PriorIssues(p)
        /\ file.obj.issues = args[p].issues.val

\* C7: an update that passes issues and omits blocked_on leaves blocked_on
\* as it was, and one that passes blocked_on and omits issues leaves issues
\* as they were.
C7_ListsIndependent ==
    \A p \in Procs : Returned(p) =>
        /\ (args[p].issues.given /\ ~args[p].blocked_on.given) =>
               (FileIsObject /\ file.obj.blocked_on = PriorBlockedOn(p)
                /\ ret[p].blocked_on = PriorBlockedOn(p))
        /\ (args[p].blocked_on.given /\ ~args[p].issues.given) =>
               (FileIsObject /\ file.obj.issues = PriorIssues(p)
                /\ ret[p].issues = PriorIssues(p))

\* new issues are written while the blocker of the prior state stays
C7_Witness ==
    \E p \in Procs :
        /\ Returned(p)
        /\ args[p].issues.given
        /\ args[p].issues.val # <<>>
        /\ args[p].issues.val # PriorIssues(p)
        /\ ~args[p].blocked_on.given
        /\ PriorBlockedOn(p) # <<>>
        /\ file.obj.issues = args[p].issues.val
        /\ file.obj.blocked_on = PriorBlockedOn(p)

\* C8: after an update the returned and persisted phase is the phase passed,
\* whatever the phase was, and every artifact recorded before the call is
\* still recorded, with its value unless the delta has the key.
C8_PhaseOverwrites ==
    \A p \in Procs : Returned(p) =>
        /\ ret[p].phase = args[p].phase
        /\ FileIsObject
        /\ file.obj.phase = args[p].phase
        /\ \A k \in DOMAIN PriorArtifacts(p) :
               /\ k \in DOMAIN file.obj.artifacts
               /\ k \notin DOMAIN Delta(p) =>
                      file.obj.artifacts[k] = PriorArtifacts(p)[k]

\* a step back from FRONTEND to UIUX on a state with a recorded artifact
C8_Witness ==
    \E p \in Procs :
        /\ Returned(p)
        /\ "phase" \in DOMAIN PriorState(p)
        /\ PriorState(p).phase = "FRONTEND"
        /\ args[p].phase = "UIUX"
        /\ PriorArtifacts(p) # EmptyDict
        /\ ~args[p].artifacts.given
        /\ file.obj.phase = "UIUX"
        /\ file.obj.artifacts = PriorArtifacts(p)

UpdatedKeys == {"phase", "artifacts", "issues", "blocked_on"}

\* C9: when an update has returned, a load of the state file gives the phase,
\* artifacts, issues and blocked_on of the returned value.
C9_PersistedEqualsReturned ==
    \A p \in Procs : Returned(p) =>
        LET l == ReadStateFile(file)
        IN /\ FileIsObject
           /\ l.isdict
           /\ UpdatedKeys \subseteq DOMAIN l.val
           /\ \A k \in UpdatedKeys : l.val[k] = ret[p][k]

\* a returned update that recorded an artifact, an issue and a blocker
C9_Witness ==
    \E p \in Procs :
        /\ Returned(p)
        /\ ret[p].artifacts # EmptyDict
        /\ ret[p].issues # <<>>
        /\ ret[p].blocked_on # <<>>
        /\ file.obj = ret[p]

\* the state made of the arguments alone
FromArguments(a) ==
    [phase |-> a.phase,
     artifacts |-> IF a.artifacts.given THEN a.artifacts.val ELSE EmptyDict,
     issues |-> IF a.issues.given THEN a.issues.val ELSE <<>>,
     blocked_on |-> IF a.blocked_on.given THEN a.blocked_on.val ELSE <<>>]

\* C10: a call that found the state file absent or not parseable does not
\* raise, and what it returns and persists is made of its arguments alone.
C10_AbsentOrCorruptIsEmpty ==
    \A p \in Procs :
        (pc[p] # "idle" /\ before[p].kind \in {"absent", "empty", "unparseable"}) =>
            /\ pc[p] # "raised"
            /\ Returned(p) =>
                   /\ ret[p] = FromArguments(args[p])
                   /\ file = ObjectFile(FromArguments(args[p]))

\* a returned update that found text that is not JSON
C10_Witness ==
    \E p \in Procs :
        /\ Returned(p)
        /\ before[p].kind = "unparseable"
        /\ Truthy(args[p].artifacts)
        /\ file.obj.artifacts = args[p].artifacts.val

\* C11: while a call that found a well-formed state file is in progress, the
\* file holds either that previous state or the complete new state, never an
\* empty or partial one.
C11_NoTornFile ==
    \A p \in Procs :
        (pc[p] \in {"loaded", "opened", "written", "returned"}
         /\ before[p].kind = "object") =>
            \/ file = before[p]
            \/ file = ObjectFile(state[p])

\* C12: a call repeated with the same arguments leaves the persisted state,
\* and returns the state, that the first call left.
C12_Idempotent ==
    \A p \in Procs :
        (Returned(p) /\ repeat[p]) => (file = before[p] /\ ObjectFile(ret[p]) = before[p])

\* a repeated call that passed artifacts, issues and blockers
C12_Witness ==
    \E p \in Procs :
        /\ Returned(p)
        /\ repeat[p]
        /\ Truthy(args[p].artifacts)
        /\ Truthy(args[p].issues)
        /\ Truthy(args[p].blocked_on)
        /\ file = before[p]

PersistedPhase == IF FileIsObject /\ "phase" \in DOMAIN file.obj THEN file.obj.phase ELSE ""
PersistedArtifacts ==
    IF FileIsObject /\ "artifacts" \in DOMAIN file.obj THEN file.obj.artifacts ELSE EmptyDict

\* C13: the persisted phase is DONE only if every artifact of the fixed set
\* is true and validation_passed is true.
C13_QualityGate ==
    PersistedPhase = "DONE" =>
        /\ \A k \in FixedArtifacts :
               k \in DOMAIN PersistedArtifacts /\ PersistedArtifacts[k] = TRUE
        /\ "validation_passed" \in DOMAIN file.obj
        /\ file.obj["validation_passed"] = TRUE

\* C14: an update that found blocked_on naming the deliverable of the phase
\* it found does not leave a later phase of the workflow in the file.
C14_NoAdvancePastBlocked ==
    \A p \in Procs :
        (/\ Returned(p)
         /\ "phase" \in DOMAIN PriorState(p)
         /\ \E i \in DOMAIN PriorBlockedOn(p) :
                PriorBlockedOn(p)[i] = Deliverable(PriorState(p).phase)) =>
            ~(PhaseRank(PersistedPhase) > PhaseRank(PriorState(p).phase))

\* C15: the persisted phase is one of the eight phases and every key of the
\* persisted artifacts map is one of the eight artifact keys.
C15_PhaseAndKeysInEnum ==
    FileIsObject =>
        /\ "phase" \in DOMAIN file.obj => file.obj.phase \in Phases
        /\ DOMAIN PersistedArtifacts \subseteq FixedArtifacts

\* the indices of the expected paths that do not exist
MissingIndices == {i \in DOMAIN validation.ret.expected : validation.ret.expected[i] \notin fs}

C17_ValidateUnknownSize ==
    (validation.called /\ validation.size \notin {"small", "medium", "large"}) =>
        /\ ~validation.raised
        /\ DOMAIN validation.ret = {"valid", "error"}
        /\ validation.ret.valid = FALSE
        /\ \E i \in DOMAIN validation.ret.error :
               validation.ret.error[i] = validation.size
        /\ validation.probed = {}

\* the size "unknown" in a directory that has paths
C17_Witness ==
    /\ validation.called
    /\ validation.size = "unknown"
    /\ fs # {}
    /\ validation.ret.valid = FALSE

\* C18: a step that produces a validation result leaves the paths of the
\* directory, the .orchestration directory and the state file as they were.
C18_ValidateReadOnly ==
    [][(validation' # validation /\ validation'.called) =>
           (fs' = fs /\ file' = file /\ orchDir' = orchDir)]_vars

\* a validation with missing paths next to persisted issues that are not
\* those paths
C18_Witness ==
    /\ validation.called
    /\ "missing" \in DOMAIN validation.ret
    /\ validation.ret.missing # <<>>
    /\ fs # {}
    /\ FileIsObject
    /\ file.obj.issues # <<>>
    /\ file.obj.issues # validation.ret.missing

\* the message of the failure a search meets with a key: of the import, or
\* of the provider
FailureMessage ==
    IF ~search.canImport
    THEN <<"Failed to import tavily client: ", "No module named 'tavily'">>
    ELSE <<search.provider>>

\* C19: a search does not raise; without the key it returns results = [] and
\* an error that names TAVILY_API_KEY; when the client or its search fails
\* with message m it returns error = "Search failed: m" and results = [].
C19_SearchNeverRaises ==
    search.called =>
        /\ ~search.raised
        /\ ~search.key =>
               /\ DOMAIN search.ret = {"error", "results"}
               /\ \E i \in DOMAIN search.ret.error :
                      search.ret.error[i] = "TAVILY_API_KEY"
               /\ search.ret.results = <<>>
        /\ (search.key /\ (~search.canImport \/ search.provider # "up")) =>
               /\ DOMAIN search.ret = {"error", "results"}
               /\ search.ret.error = <<"Search failed: ">> \o FailureMessage
               /\ search.ret.results = <<>>

\* a search made with the key while the provider refuses connections
C19_Witness ==
    /\ search.called
    /\ search.key
    /\ search.canImport
    /\ search.provider = "Connection error"
    /\ search.ret.error = <<"Search failed: ", "Connection error">>

\* the request a search is to make of the provider
ExpectedRequest ==
    [query |-> search.args.query,
     max_results |-> IF search.args.max_results.given
                     THEN search.args.max_results.val ELSE 5,
     topic |-> IF search.args.topic.given
               THEN search.args.topic.val ELSE "general",
     include_raw_content |-> IF search.args.include_raw_content.given
                             THEN search.args.include_raw_content.val ELSE FALSE]

\* C20: a search that succeeds has passed query, max_results, topic and
\* include_raw_content (5, general and false when omitted) to the provider
\* and returns the provider's answer to that request, whatever was called
\* before; a search leaves the state file as it was.
C20_SearchPassThrough ==
    /\ [](search.called /\ search.key /\ search.canImport
            /\ search.provider = "up" =>
               /\ ~search.raised
               /\ search.forwarded = {ExpectedRequest}
               /\ search.ret = ProviderResponse(ExpectedRequest))
    /\ [][search' # search => (file' = file /\ orchDir' = orchDir)]_vars

\* the search of the test with its own parameters, next to a state file
C20_Witness ==
    /\ search.called
    /\ search.key
    /\ search.canImport
    /\ search.provider = "up"
    /\ search.args.max_results.given
    /\ search.args.max_results.val = 10
    /\ search.args.topic.given
    /\ search.args.topic.val = "news"
    /\ search.args.include_raw_content.given
    /\ search.args.include_raw_content.val = TRUE
    /\ search.ret.results[1].rank = 10
    /\ file = SampleState


(* ------------------- the roles handed to the runtime ------------------- *)

\* the last call of create_software_dev_agent reached create_deep_agent and
\* returned the agent
AgentCreated == agent.called /\ ~agent.raised /\ agent.invoked

\* the tools of a sub-agent dict, as agent.get("tools", []) reads them
ToolsOf(sa) == Range(Get(sa, "tools", <<>>))

\* the names of the sub-agents of the last creation that carry tool t
NamesWith(t) ==
    {agent.kwargs.subagents[i].name :
        i \in {j \in DOMAIN agent.kwargs.subagents :
                  t \in ToolsOf(agent.kwargs.subagents[j])}}

\* the sub-agent of the last creation with the given name pieces
Named(n) ==
    {agent.kwargs.subagents[i] :
        i \in {j \in DOMAIN agent.kwargs.subagents :
                  agent.kwargs.subagents[j].name = n}}

\* C21: of the six role configurations handed to create_deep_agent, exactly
\* requirements-analyst and architecture-agent carry internet_search;
\* frontend-developer, backend-developer, tester-agent and devops-agent do
\* not, whatever model, environment model or per-role models were passed.
C21_SearchOnlyForResearchRoles ==
    AgentCreated =>
        /\ Len(agent.kwargs.subagents) = 6
        /\ NamesWith("internet_search") =
              {<<"requirements", "-", "analyst">>, <<"architecture", "-", "agent">>}
        /\ \A n \in {<<"frontend", "-", "developer">>, <<"backend", "-", "developer">>,
                     <<"tester", "-", "agent">>, <<"devops", "-", "agent">>} :
              /\ Named(n) # {}
              /\ \A sa \in Named(n) : "internet_search" \notin ToolsOf(sa)

\* a creation with per-role models has handed over a requirements role that
\* carries both its own model and the search
C21_Witness ==
    /\ AgentCreated
    /\ agent.entry = "src"
    /\ DOMAIN agent.args.agent_models = {"requirements", "architecture"}
    /\ agent.args.model = "custom-model"
    /\ "model" \in DOMAIN agent.kwargs.subagents[1]
    /\ agent.kwargs.subagents[1].model = "fast-model"
    /\ "internet_search" \in ToolsOf(agent.kwargs.subagents[1])

\* C22: validate_project_structure and update_orchestration_state are in the
\* tool list of architecture-agent and of no other role; every role's tools
\* are among the tools registered with create_deep_agent; the frontend,
\* backend, tester and devops roles have an empty tool list.
C22_PrivilegedToolsOnlyArchitecture ==
    AgentCreated =>
        /\ \A t \in {"validate_project_structure", "update_orchestration_state"} :
              NamesWith(t) = {<<"architecture", "-", "agent">>}
        /\ \A i \in DOMAIN agent.kwargs.subagents :
              ToolsOf(agent.kwargs.subagents[i]) \subseteq Range(agent.kwargs.tools)
        /\ Range(agent.kwargs.tools) =
              {"internet_search", "validate_project_structure",
               "update_orchestration_state"}
        /\ \A n \in {<<"frontend", "-", "developer">>, <<"backend", "-", "developer">>,
                     <<"tester", "-", "agent">>, <<"devops", "-", "agent">>} :
              \A sa \in Named(n) : Get(sa, "tools", <<"absent">>) = <<>>

\* the top-level entry point has handed over its six literal roles, the
\* architecture role with the two privileged tools
C22_Witness ==
    /\ AgentCreated
    /\ agent.entry = "top"
    /\ Len(agent.kwargs.subagents) = 6
    /\ {"validate_project_structure", "update_orchestration_state"}
          \subseteq ToolsOf(agent.kwargs.subagents[2])
    /\ agent.kwargs.subagents[3].tools = <<>>

\* C23: a recursion_limit <= 0 makes create_software_dev_agent raise
\* ValueError("Recursion limit must be positive") before create_deep_agent is
\* called and without an agent; with a recursion_limit > 0 the returned agent
\* is configured with that very limit and the given project_size.
C23_RecursionLimitChecked ==
    agent.called =>
        /\ agent.args.recursion_limit <= 0 =>
              /\ agent.raised
              /\ agent.error = [type |-> "ValueError",
                                message |-> "Recursion limit must be positive"]
              /\ ~agent.invoked
              /\ DOMAIN agent.config = {}
        /\ (agent.args.recursion_limit > 0 /\ ~agent.raised) =>
              /\ agent.config.recursion_limit = agent.args.recursion_limit
              /\ agent.config.configurable.project_size = agent.args.project_size

\* a creation with limit 0 has raised while the runtime was ready
C23_Witness ==
    /\ agent.called
    /\ agent.entry = "src"
    /\ agent.args.recursion_limit = 0
    /\ agent.runtime = "up"
    /\ agent.raised
    /\ ~agent.invoked

\* C24: when create_deep_agent raises, create_software_dev_agent raises with
\* the same message and returns no agent, and no creation, failed or not,
\* changes the persisted state file.
C24_RuntimeFailurePropagates ==
    /\ [](agent.called =>
            ((agent.args.recursion_limit > 0 /\ agent.runtime # "up") =>
                /\ agent.raised
                /\ agent.invoked
                /\ agent.error.message = agent.runtime
                /\ DOMAIN agent.config = {}))
    /\ [][agent' # agent => (file' = file /\ orchDir' = orchDir)]_vars

\* a creation has failed with the runtime's message while a state file exists
C24_Witness ==
    /\ agent.called
    /\ agent.args.recursion_limit > 0
    /\ agent.runtime = "Creation failed"
    /\ agent.raised
    /\ agent.error.message = "Creation failed"
    /\ file = SampleState

\* C25: a project_size outside small, medium and large makes
\* create_software_dev_agent fail instead of returning an agent configured
\* with that size.
C25_UnknownSizeRejected ==
    agent.called =>
        (agent.args.project_size \notin {"small", "medium", "large"} => agent.raised)


(* ------------------------- the initial states -------------------------- *)

\* the handles whose state reads differently after the step
ChangedViews ==
    {i \in DOMAIN handles :
        View(objects', handles[i].ref) # View(objects, handles[i].ref)}

\* C26: every call of get_initial_state(size) returns a state with
\* project_size = size, current_phase = REQ, the eight artifact keys all
\* false, empty issues, blocked_on and agent_assignments, validation_passed
\* and ready_for_delivery false; the call changes no state returned before,
\* and a change made through one state shows in no other state.
C26_InitialStateFreshAndIndependent ==
    [][/\ Len(handles') > Len(handles) =>
            LET h == handles'[Len(handles')]
                v == View(objects', h.ref)
            IN /\ v.project_size = h.size
               /\ v.current_phase = "REQ"
               /\ DOMAIN v.artifacts =
                     {"requirements", "architecture", "adr", "openapi", "ux",
                      "run_instructions", "testing", "deployment"}
               /\ \A k \in DOMAIN v.artifacts : v.artifacts[k] = FALSE
               /\ v.issues = <<>>
               /\ v.blocked_on = <<>>
               /\ DOMAIN v.agent_assignments = {}
               /\ v.validation_passed = FALSE
               /\ v.ready_for_delivery = FALSE
               /\ ChangedViews = {}
       /\ handles' = handles => Cardinality(ChangedViews) <= 1]_vars

\* the caller holds two states for the same size; the first has been worked
\* on (phase, artifact, issue) and the second still reads as initial
C26_Witness ==
    /\ Len(handles) = 2
    /\ handles[1].size = handles[2].size
    /\ View(objects, handles[1].ref).current_phase = "ARCH"
    /\ View(objects, handles[1].ref).artifacts.requirements
    /\ Len(View(objects, handles[1].ref).issues) = 1
    /\ View(objects, handles[2].ref).current_phase = "REQ"
    /\ ~View(objects, handles[2].ref).artifacts.requirements
    /\ View(objects, handles[2].ref).issues = <<>>


(* ----------------- state files with more than four keys ---------------- *)

\* the keys of the stored state that the tool does not write
OtherKeys(p) == DOMAIN PriorState(p) \ {"phase", "artifacts", "issues", "blocked_on"}

\* C27: an update rewrites only phase, artifacts, issues and blocked_on:
\* every other top-level key of the stored state is in the returned and in
\* the persisted state with its stored value, no further key appears, and
\* the persisted state has all four keys.
C27_OtherKeysCarriedOver ==
    \A p \in Procs : Returned(p) =>
        /\ FileIsObject
        /\ \A k \in OtherKeys(p) :
              /\ k \in DOMAIN ret[p]
              /\ ret[p][k] = PriorState(p)[k]
              /\ k \in DOMAIN file.obj
              /\ file.obj[k] = PriorState(p)[k]
        /\ DOMAIN ret[p] = OtherKeys(p) \cup {"phase", "artifacts", "issues", "blocked_on"}
        /\ DOMAIN file.obj = DOMAIN ret[p]

\* an update has returned on a stored state that held only project_size and
\* validation_passed, and both are still there next to the four keys
C27_Witness ==
    \E p \in Procs :
        /\ Returned(p)
        /\ OtherKeys(p) = {"project_size", "validation_passed"}
        /\ "phase" \notin DOMAIN PriorState(p)
        /\ FileIsObject
        /\ "project_size" \in DOMAIN file.obj
        /\ file.obj.project_size = "large"
        /\ file.obj.phase = "ARCH"

\* C28: update_orchestration_state raises for no content of the state file:
\* JSON of the wrong shape (a top-level value that is not an object, an
\* artifacts value that is not a mapping) is taken as empty prior state, like
\* an absent or unparseable file.
C28_NoContentRaises ==
    \A p \in Procs : pc[p] # "raised"


(* ---------------------------- the memories ----------------------------- *)

\* the file of the session's memory holds the text of its _memory
MemoryOnDisk ==
    /\ FileOf(memoryDir, StandaloneId).kind = "object"
    /\ FileOf(memoryDir, StandaloneId).obj = memory.m

\* the lists of the session's memory are capped and hold the newest entries
\* in the order they were saved; every interaction is kept
ListsCapped ==
    /\ Len(memory.m.decisions) <= 20
    /\ Len(memory.m.lessons_learned) <= 10
    /\ memory.m.decisions = LastN(journal.decisions, 20)
    /\ memory.m.lessons_learned = LastN(journal.lessons, 10)
    /\ memory.m.interactions = journal.interactions

PairsKeptApart ==
    /\ \A a, b \in DOMAIN issued : a # b => issued[a] # issued[b]
    /\ \A a \in DOMAIN issued, pr \in SharedProjects : issued[a] # SharedKey(pr)

\* a repeated request of a pair is answered with the memory it already has
SameMemoryAgain ==
    (mgrCall'.op = "get" /\ mgrCall'.pair \in DOMAIN issued)
        => /\ issued'[mgrCall'.pair] = issued[mgrCall'.pair]
           /\ agentMemories' = agentMemories

\* a write through a pair, or through update_shared_context, changes the
\* memory and the file of no other pair
WriteNotVisibleElsewhere ==
    /\ mgrCall'.op = "write" =>
          \A q \in DOMAIN issued \ {mgrCall'.pair} :
             /\ agentMemories'[issued[q]] = agentMemories[issued[q]]
             /\ FileOf(memoryDir', issued[q]) = FileOf(memoryDir, issued[q])
    /\ mgrCall'.op = "shared" =>
          \A q \in DOMAIN issued :
             FileOf(memoryDir', issued[q]) = FileOf(memoryDir, issued[q])

\* C30 as stated: the manager quarantines memory per (agent_name, project_id)
\* pair: the same pair gets the same memory again, two distinct pairs get
\* distinct memories with distinct files, none of them the shared-context
\* memory of a project, and a write through one pair or through
\* update_shared_context is never visible through another pair.
C30_MemoryQuarantinedPerPair ==
    /\ []PairsKeptApart
    /\ [][SameMemoryAgain /\ WriteNotVisibleElsewhere]_vars

====
